---- MODULE Spec2Model ----
(***************************************************************************)
(* Model of client/src/components/AvatarViewer.tsx: the bone name          *)
(* resolver, the rest-pose corrector, the track retargeter and the         *)
(* viewing session that loads six animations and registers their actions.  *)
(*                                                                         *)
(* Strings are sequences of tokens.  The token "mixamorig" stands for the  *)
(* nine characters of the Mixamo prefix, ":" and "." for the characters,   *)
(* and every other token for a run of characters that contains none of     *)
(* them.  Two strings are equal exactly when their token sequences are.    *)
(***************************************************************************)
EXTENDS Integers, Sequences, FiniteSets, TLC

VARIABLES
    \* ---- the viewing session (useEffect of AvatarViewer) ----
    avatar,             \* the avatar asset the GLTF loader will deliver
    avatarPc,           \* "loading" | "ready" | "failed": the avatar load's position
    targetSkeleton,     \* skeleton of the avatar's first skinned mesh (bones mutate)
    originalRotations,  \* value returned by applyTPoseCorrection
    mixerRef,           \* mixerRef.current is set
    loads,              \* name -> "idle" | "pending" | "done": each FBX load
    assets,             \* name -> what the FBX loader delivered (NotDelivered before)
    loadedAnimations,   \* counter of finished animation loads
    boneNameMap,        \* cached bone name map, NullMap before the first build
    actionsRef,         \* actionsRef.current: its entries [key, clip] in insertion order
    running,            \* names of the actions that are playing in the mixer
    currentActionRef,   \* currentActionRef.current: a name, or NoAction
    isLoading,          \* React state isLoading
    error,              \* React state error
    calls,              \* trace of the calls made to the retargeting functions
    \* ---- direct calls of the pure functions ----
    fn                  \* the call made, its arguments and its result

vars == <<avatar, avatarPc, targetSkeleton, originalRotations, mixerRef, loads,
          assets, loadedAnimations, boneNameMap, actionsRef, running,
          currentActionRef, isLoading, error, calls, fn>>

sessionVars == <<avatar, avatarPc, targetSkeleton, originalRotations, mixerRef,
                 loads, assets, loadedAnimations, boneNameMap, actionsRef,
                 running, currentActionRef, isLoading, error, calls>>

(***************************************************************************)
(* Bounds of the model.                                                    *)
(***************************************************************************)
MaxNameLen == 3     \* tokens in a bone name handed to the prefix stripping
MaxTracks == 2      \* tracks in a clip handed directly to the retargeter
MaxSamples == 2     \* keyframes in a track

(***************************************************************************)
(* Strings.                                                                *)
(***************************************************************************)
Max(S) == CHOOSE m \in S : \A n \in S : n <= m

\* String.prototype.lastIndexOf: 0-based index of the last ch, -1 when absent.
LastIndexOf(s, ch) ==
    LET I == {i \in 1..Len(s) : s[i] = ch}
    IN IF I = {} THEN -1 ELSE Max(I) - 1

\* String.prototype.substring(from, to) and substring(from), 0-based.
Substring(s, from, to) == SubSeq(s, from + 1, to)
SubstringFrom(s, from) == SubSeq(s, from + 1, Len(s))

StartsWithPrefix(s) == Len(s) >= 1 /\ s[1] = "mixamorig"

\* A variant that leaves the ':' separator behind.
StripPrefixKeepColon(s) ==
    IF StartsWithPrefix(s) THEN SubstringFrom(s, 1) ELSE s

\* boneName.replace(/^mixamorig:?/, ''): one match at the start, ':' greedy.
StripPrefix(s) ==
    IF StartsWithPrefix(s)
    THEN IF Len(s) >= 2 /\ s[2] = ":" THEN SubstringFrom(s, 2) ELSE SubstringFrom(s, 1)
    ELSE s

(***************************************************************************)
(* JavaScript values read out of a plain object ({}): an own property     *)
(* (s is its value), a member inherited from Object.prototype (s is its    *)
(* String() form), or undefined.                                          *)
(***************************************************************************)
Undefined == [kind |-> "undefined", s |-> <<>>]
Own(v) == [kind |-> "own", s |-> v]
Inherited(s) == [kind |-> "object", s |-> s]

\* Two of the property names every plain object inherits from
\* Object.prototype, with String(value) of each.
ObjectPrototype ==
    (<<"constructor">> :> <<"function Object() { [native code] }">>)
    @@ (<<"toString">> :> <<"function toString() { [native code] }">>)

\* obj[key] on an object literal with the own properties of obj.
GetProperty(obj, key) ==
    IF key \in DOMAIN obj THEN Own(obj[key])
    ELSE IF key \in DOMAIN ObjectPrototype THEN Inherited(ObjectPrototype[key])
    ELSE Undefined

\* !value
IsFalsy(v) == v.kind = "undefined" \/ (v.kind = "own" /\ v.s = <<>>)

\* `${value}`
TemplateString(v) == IF v.kind = "undefined" THEN <<"undefined">> ELSE v.s

(***************************************************************************)
(* Quaternions.  Track samples and the hand corrections have integer       *)
(* components, on which the Hamilton product is exact.  A bone's local     *)
(* rotation is Rz(rz degrees) * base: premultiplying by a rotation about   *)
(* Z adds to rz (modulo 720, the double cover).                            *)
(***************************************************************************)
Quat(x, y, z, w) == [x |-> x, y |-> y, z |-> z, w |-> w]
Identity == Quat(0, 0, 0, 1)

\* Quaternion.multiplyQuaternions(a, b), as three.js computes a * b.
MultiplyQuaternions(a, b) ==
    Quat(a.x * b.w + a.w * b.x + a.y * b.z - a.z * b.y,
         a.y * b.w + a.w * b.y + a.z * b.x - a.x * b.z,
         a.z * b.w + a.w * b.z + a.x * b.y - a.y * b.x,
         a.w * b.w - a.x * b.x - a.y * b.y - a.z * b.z)

\* sin and cos of half the angle, for the angles the code flips by.
SinHalf(deg) == IF deg = 180 THEN 1 ELSE 0
CosHalf(deg) == IF deg = 180 THEN 0 ELSE 1

\* new Quaternion().setFromAxisAngle(axis, angle) for a half turn or no turn.
SetFromAxisAngle(axis, deg) ==
    Quat(axis[1] * SinHalf(deg), axis[2] * SinHalf(deg), axis[3] * SinHalf(deg),
         CosHalf(deg))

APOSE_TO_TPOSE_OFFSET == 40

\* bone.quaternion of a skeleton bone: Rz(rz) * base.
BoneQuat(rz, base) == [rz |-> rz, base |-> base]

\* bone.quaternion.premultiply(setFromAxisAngle((0,0,1), angle)).
PremultiplyZ(q, angle) == BoneQuat((q.rz + angle) % 720, q.base)

(***************************************************************************)
(* Skeletons, tracks and clips.                                            *)
(***************************************************************************)
Bone(name, quaternion) == [name |-> name, quaternion |-> quaternion]

\* A skeleton, or the undefined that `mesh?.skeleton` gives without a mesh.
Skeleton(bones) == [isNull |-> FALSE, bones |-> bones]
NoSkeleton == [isNull |-> TRUE, bones |-> <<>>]

BoneNames(skeleton) == {skeleton.bones[i].name : i \in 1..Len(skeleton.bones)}

\* A KeyframeTrack: ctor is the class the loader instantiated.
Track(name, ctor, times, values) ==
    [name |-> name, ctor |-> ctor, times |-> times, values |-> values]

\* THREE.AnimationClip's constructor: a negative duration is recomputed
\* from the tracks (resetDuration).
AnimationClip(name, duration, tracks) ==
    LET ends == {tracks[i].times[Len(tracks[i].times)] : i \in 1..Len(tracks)}
    IN [name |-> name,
        duration |-> IF duration < 0
                     THEN (IF ends = {} THEN 0 ELSE Max(ends))
                     ELSE duration,
        tracks |-> tracks]

\* skeleton.bones.find(b => b.name === name): index of the bone, 0 for null.
findBoneByName(skeleton, name) ==
    LET I == {i \in 1..Len(skeleton.bones) : skeleton.bones[i].name = name}
    IN IF I = {} THEN 0 ELSE CHOOSE i \in I : \A j \in I : i <= j

(***************************************************************************)
(* buildBoneNameMap.                                                       *)
(***************************************************************************)
\* Bone names read off the clip's track names, in first-seen order.
RECURSIVE TrackBoneNames(_, _, _)
TrackBoneNames(tracks, i, acc) ==
    IF i > Len(tracks) THEN acc
    ELSE LET dotIndex == LastIndexOf(tracks[i].name, ".")
             boneName == Substring(tracks[i].name, 0, dotIndex)
         IN IF dotIndex # -1 /\ ~(\E k \in 1..Len(acc) : acc[k] = boneName)
            THEN TrackBoneNames(tracks, i + 1, Append(acc, boneName))
            ELSE TrackBoneNames(tracks, i + 1, acc)

SourceBoneNamesOf(sourceSkeleton, animationClip) ==
    IF ~sourceSkeleton.isNull
    THEN [i \in 1..Len(sourceSkeleton.bones) |-> sourceSkeleton.bones[i].name]
    ELSE TrackBoneNames(animationClip.tracks, 1, <<>>)

\* The map as an object: own property boneName -> mappedName for every source
\* bone whose stripped name is a target bone name.
buildBoneNameMap(sourceSkeleton, targetSkel, animationClip) ==
    LET sourceBoneNames == SourceBoneNamesOf(sourceSkeleton, animationClip)
        targetBoneNames == BoneNames(targetSkel)
        matched == {sourceBoneNames[i] : i \in
                      {k \in 1..Len(sourceBoneNames) :
                          StripPrefix(sourceBoneNames[k]) \in targetBoneNames}}
    IN [boneName \in matched |-> StripPrefix(boneName)]

(***************************************************************************)
(* applyTPoseCorrection and restoreAPose.                                  *)
(***************************************************************************)
armBones ==
    << [name |-> <<"LeftUpperArm">>, angle |-> APOSE_TO_TPOSE_OFFSET],
       [name |-> <<"RightUpperArm">>, angle |-> -APOSE_TO_TPOSE_OFFSET],
       [name |-> <<"LeftShoulder">>, angle |-> (APOSE_TO_TPOSE_OFFSET * 3) \div 10],
       [name |-> <<"RightShoulder">>, angle |-> -((APOSE_TO_TPOSE_OFFSET * 3) \div 10)] >>

\* The loop over armBones from entry k on; st = [skeleton, originalRotations].
RECURSIVE TPoseLoop(_, _)
TPoseLoop(st, k) ==
    IF k > Len(armBones) THEN st
    ELSE LET name == armBones[k].name
             b == findBoneByName(st.skeleton, name)
         IN IF b # 0
            THEN TPoseLoop(
                   [skeleton |-> [st.skeleton EXCEPT !.bones[b].quaternion =
                                     PremultiplyZ(@, armBones[k].angle)],
                    originalRotations |->
                        (name :> st.skeleton.bones[b].quaternion)
                            @@ st.originalRotations],
                   k + 1)
            ELSE TPoseLoop(st, k + 1)

\* Returns the mutated skeleton together with the Map of saved rotations.
applyTPoseCorrection(skeleton) ==
    TPoseLoop([skeleton |-> skeleton, originalRotations |-> <<>>], 1)

\* A restore that undoes the rotation of the upper arms only.
restoreAPoseUpperArmsOnly(skeleton, saved) ==
    [skeleton EXCEPT !.bones =
        [i \in 1..Len(skeleton.bones) |->
            IF /\ skeleton.bones[i].name \in {<<"LeftUpperArm">>, <<"RightUpperArm">>}
               /\ skeleton.bones[i].name \in DOMAIN saved
               /\ findBoneByName(skeleton, skeleton.bones[i].name) = i
            THEN [skeleton.bones[i] EXCEPT !.quaternion = saved[skeleton.bones[i].name]]
            ELSE skeleton.bones[i]]]

\* For every saved name, the first bone of that name gets the saved value.
restoreAPose(skeleton, saved) ==
    [skeleton EXCEPT !.bones =
        [i \in 1..Len(skeleton.bones) |->
            IF /\ skeleton.bones[i].name \in DOMAIN saved
               /\ findBoneByName(skeleton, skeleton.bones[i].name) = i
            THEN [skeleton.bones[i] EXCEPT !.quaternion = saved[skeleton.bones[i].name]]
            ELSE skeleton.bones[i]]]

(***************************************************************************)
(* retargetAnimationClip.                                                  *)
(***************************************************************************)
createHandCorrectionQuaternions ==
    LET xFlip == SetFromAxisAngle(<<1, 0, 0>>, 180)
    IN [left |-> xFlip, right |-> xFlip]

\* Own properties of the handBoneCorrections object.
handBoneCorrections ==
    (<<"LeftHand">> :> createHandCorrectionQuaternions.left)
    @@ (<<"RightHand">> :> createHandCorrectionQuaternions.right)
    @@ (<<"LeftForeArm">> :> Identity)
    @@ (<<"RightForeArm">> :> Identity)

\* Sample i \div 4 of a flat quaternion buffer (0-based offset i).
QuatAt(values, i) ==
    Quat(values[i + 1], values[i + 2], values[i + 3], values[i + 4])

Component(q, k) == IF k = 0 THEN q.x ELSE IF k = 1 THEN q.y ELSE IF k = 2 THEN q.z ELSE q.w

\* The wrong order: correction * original.
HandCorrectPre(originalQuat, handCorrection) ==
    MultiplyQuaternions(handCorrection, originalQuat)

\* originalQuat.clone().multiply(handCorrection)
HandCorrect(originalQuat, handCorrection) ==
    MultiplyQuaternions(originalQuat, handCorrection)

\* The loop `for (i = 0; i < values.length; i += 4)` filling correctedValues.
CorrectedValues(values, handCorrection) ==
    [n \in 1..Len(values) |->
        Component(HandCorrect(QuatAt(values, ((n - 1) \div 4) * 4), handCorrection),
                  (n - 1) % 4)]

\* new KeyframeTrack subclass: throws without keyframes, else one new track.
NewTrack(ctor, name, times, values) ==
    IF Len(times) = 0 THEN <<>> ELSE <<Track(name, ctor, times, values)>>

\* A property test that forgets the scale tracks.
IsDroppedPropertyPositionOnly(property) == property = <<"position">>

\* property === 'position' || property === 'scale'
IsDroppedProperty(property) == property = <<"position">> \/ property = <<"scale">>

\* A hand-corrected track that keeps only the first keyframe time.
CorrectedTimesFirstOnly(times) == SubSeq(times, 1, 1)

\* The times handed to the corrected track: the input track's own array.
CorrectedTimes(times) == times

\* One iteration of the loop over clip.tracks: the tracks it pushes onto
\* newTracks (none when it continues or when the catch swallows a throw).
RetargetTrack(track, nameMap) ==
    LET dotIndex == LastIndexOf(track.name, ".")
        boneName == Substring(track.name, 0, dotIndex)
        property == SubstringFrom(track.name, dotIndex + 1)
        mappedBoneName == GetProperty(nameMap, boneName)
        newTrackName == TemplateString(mappedBoneName) \o <<".">> \o property
        handCorrection == GetProperty(handBoneCorrections, TemplateString(mappedBoneName))
    IN IF dotIndex = -1 THEN <<>>
       ELSE IF IsFalsy(mappedBoneName) THEN <<>>
       ELSE IF IsDroppedProperty(property) THEN <<>>
       ELSE IF handCorrection.kind = "object"
            THEN <<>>   \* handCorrection.equals is not a function: caught
       ELSE IF /\ handCorrection.kind # "undefined"
               /\ handCorrection.s # Identity
               /\ property = <<"quaternion">>
            THEN NewTrack("QuaternionKeyframeTrack", newTrackName,
                          CorrectedTimes(track.times),
                          CorrectedValues(track.values, handCorrection.s))
       ELSE NewTrack(track.ctor, newTrackName, track.times, track.values)

RECURSIVE RetargetLoop(_, _, _, _)
RetargetLoop(tracks, nameMap, i, newTracks) ==
    IF i > Len(tracks) THEN newTracks
    ELSE RetargetLoop(tracks, nameMap, i + 1,
                      newTracks \o RetargetTrack(tracks[i], nameMap))

retargetAnimationClip(clip, nameMap, animationName) ==
    AnimationClip(IF clip.name = <<>> THEN animationName ELSE clip.name,
                  clip.duration,
                  RetargetLoop(clip.tracks, nameMap, 1, <<>>))

(***************************************************************************)
(* Direct calls of the pure functions: the arguments are drawn from the    *)
(* bounded sets below, the result is computed by the operators above.      *)
(***************************************************************************)
RECURSIVE SeqsUpTo(_, _)
SeqsUpTo(S, n) ==
    IF n = 0 THEN {<<>>}
    ELSE LET shorter == SeqsUpTo(S, n - 1)
         IN shorter \cup {Append(q, x) : q \in {r \in shorter : Len(r) = n - 1}, x \in S}

NameTokens == {"mixamorig", ":", "Hips", "x"}
StripInputs == SeqsUpTo(NameTokens, MaxNameLen)

mHips == <<"mixamorig", "Hips">>
mLeftHand == <<"mixamorig", "LeftHand">>
mRightHand == <<"mixamorig", ":", "RightHand">>
mLeftForeArm == <<"mixamorig", "LeftForeArm">>

quaternion == <<"quaternion">>
position == <<"position">>
scale == <<"scale">>

TrackName(boneName, property) == boneName \o <<".">> \o property

\* Keyframe times: non-decreasing, each at most MaxSamples - 1.
TimesInputs ==
    {t \in SeqsUpTo(0..(MaxSamples - 1), MaxSamples) :
        Len(t) >= 1 /\ \A i \in 1..(Len(t) - 1) : t[i] <= t[i + 1]}

QuatInputs == {Identity, Quat(1, 0, 0, 0), Quat(0, 1, 0, 0), Quat(0, 0, -1, 0)}

RECURSIVE Flatten(_)
Flatten(qs) ==
    IF qs = <<>> THEN <<>>
    ELSE <<Head(qs).x, Head(qs).y, Head(qs).z, Head(qs).w>> \o Flatten(Tail(qs))

\* Quaternion tracks of one bone with every choice of times and, for each
\* keyframe, of its sample.
QuaternionTracks(boneName) ==
    UNION { {Track(TrackName(boneName, quaternion), "QuaternionKeyframeTrack", t,
                   Flatten(qs)) :
                qs \in {q \in SeqsUpTo(QuatInputs, MaxSamples) : Len(q) = Len(t)}} :
            t \in TimesInputs }

\* One track of the given name with two fixed keyframes.
FixedTrack(name) ==
    IF SubstringFrom(name, LastIndexOf(name, ".") + 1) = quaternion
    THEN Track(name, "QuaternionKeyframeTrack", <<0, 1>>,
               Flatten(<<Quat(0, 1, 0, 0), Identity>>))
    ELSE Track(name, "VectorKeyframeTrack", <<0, 1>>, <<1, 2, 3, 4, 5, 6>>)

RetargetBoneInputs == {mHips, mLeftHand, mLeftForeArm, <<"Tail">>, <<"constructor">>}

TrackNameInputs ==
    {TrackName(b, p) : b \in RetargetBoneInputs, p \in {quaternion, position, scale}}
        \cup {mHips, TrackName(mHips, <<>>)}

ClipInputs ==
    {AnimationClip(<<"mixamo.com">>, d, tracks) :
        d \in {1, 2},
        tracks \in SeqsUpTo({FixedTrack(n) : n \in TrackNameInputs}, MaxTracks)}
    \cup
    {AnimationClip(<<>>, 1, <<tr>>) :
        tr \in UNION {QuaternionTracks(b) : b \in {mHips, mLeftHand, mLeftForeArm}}}

\* Bone name maps: every subset of three source names, mapped in three ways.
MapInputs ==
    LET natural == (mHips :> <<"Hips">>) @@ (mLeftHand :> <<"LeftHand">>)
                       @@ (mLeftForeArm :> <<"LeftForeArm">>)
        crossed == (mHips :> <<"RightHand">>) @@ (mLeftHand :> <<"Hips">>)
                       @@ (mLeftForeArm :> <<"LeftHand">>)
        dotted == (mHips :> <<"Hips", ".", "position">>) @@ (mLeftHand :> <<"scale">>)
                       @@ (mLeftForeArm :> <<"RightForeArm">>)
    IN {[b \in S |-> f[b]] : S \in SUBSET {mHips, mLeftHand, mLeftForeArm},
                             f \in {natural, crossed, dotted}}

\* Skeletons: each entry of the list is absent or present with one of two
\* rotations; the present bones keep the order of the list (one name twice).
SkeletonBoneNames ==
    << <<"Hips">>, <<"LeftShoulder">>, <<"LeftUpperArm">>, <<"RightShoulder">>,
       <<"RightUpperArm">>, <<"LeftHand">>, <<"LeftUpperArm">> >>

BoneQuatInputs == <<BoneQuat(0, Identity), BoneQuat(700, Quat(0, 1, 0, 0))>>

\* choice[i] = 0 leaves bone i out, k > 0 gives it the k-th rotation.
RECURSIVE BonesOf(_, _)
BonesOf(choice, i) ==
    IF i > Len(SkeletonBoneNames) THEN <<>>
    ELSE (IF choice[i] = 0 THEN <<>>
          ELSE <<Bone(SkeletonBoneNames[i], BoneQuatInputs[choice[i]])>>)
         \o BonesOf(choice, i + 1)

SkeletonInputs ==
    {Skeleton(BonesOf(choice, 1)) :
        choice \in [1..Len(SkeletonBoneNames) -> 0..Len(BoneQuatInputs)]}

FnIdle == [op |-> "idle"]

FnStrip ==
    /\ fn = FnIdle
    /\ \E name \in StripInputs :
          fn' = [op |-> "strip", name |-> name, out |-> StripPrefix(name),
                 again |-> StripPrefix(StripPrefix(name))]
    /\ UNCHANGED sessionVars

FnRetarget ==
    /\ fn = FnIdle
    /\ \E clip \in ClipInputs, nameMap \in MapInputs :
          fn' = [op |-> "retarget", clip |-> clip, nameMap |-> nameMap,
                 pushed |-> [i \in 1..Len(clip.tracks) |->
                                RetargetTrack(clip.tracks[i], nameMap)],
                 out |-> retargetAnimationClip(clip, nameMap, <<"walking">>)]
    /\ UNCHANGED sessionVars

\* Target rigs for a map built and used at once; one has a bone whose name
\* every object inherits.
TargetInputs ==
    { Skeleton(<<Bone(<<"Hips">>, BoneQuat(0, Identity)),
                 Bone(<<"LeftHand">>, BoneQuat(0, Identity))>>),
      Skeleton(<<Bone(<<"LeftForeArm">>, BoneQuat(0, Identity))>>),
      Skeleton(<<Bone(<<"Hips">>, BoneQuat(0, Identity)),
                 Bone(<<"constructor">>, BoneQuat(0, Identity))>>) }

\* buildBoneNameMap against a target skeleton, then retargetAnimationClip.
FnBuildRetarget ==
    /\ fn = FnIdle
    /\ \E clip \in {c \in ClipInputs : c.duration = 2},
          sourceSkeleton \in {NoSkeleton, Skeleton(<<Bone(mHips, BoneQuat(0, Identity)),
                                                     Bone(mLeftHand, BoneQuat(0, Identity))>>)},
          targetSkel \in TargetInputs :
          LET nameMap == buildBoneNameMap(sourceSkeleton, targetSkel, clip)
          IN fn' = [op |-> "buildRetarget", clip |-> clip,
                    sourceSkeleton |-> sourceSkeleton, targetSkel |-> targetSkel,
                    nameMap |-> nameMap,
                    pushed |-> [i \in 1..Len(clip.tracks) |->
                                   RetargetTrack(clip.tracks[i], nameMap)],
                    out |-> retargetAnimationClip(clip, nameMap, <<"walking">>)]
    /\ UNCHANGED sessionVars

FnApplyTPose ==
    /\ fn = FnIdle
    /\ \E skeleton \in SkeletonInputs :
          LET r == applyTPoseCorrection(skeleton)
          IN fn' = [op |-> "applyTPose", before |-> skeleton,
                    skeleton |-> r.skeleton, saved |-> r.originalRotations]
    /\ UNCHANGED sessionVars

FnRestoreAPose ==
    /\ fn.op = "applyTPose"
    /\ fn' = [op |-> "restoreAPose", before |-> fn.before, corrected |-> fn.skeleton,
              saved |-> fn.saved, skeleton |-> restoreAPose(fn.skeleton, fn.saved)]
    /\ UNCHANGED sessionVars

(***************************************************************************)
(* The viewing session.                                                    *)
(***************************************************************************)
AnimationNames ==
    <<"walking", "sitting", "standing_up", "talking", "happy", "greeting">>
Names == {AnimationNames[i] : i \in 1..Len(AnimationNames)}
totalAnimations == 6

\* A loaded scene graph: its nodes in traversal order, and its animations
\* (hasAnimations is FALSE for an object without an animations array).
Node(isSkinnedMesh, skeleton) == [isSkinnedMesh |-> isSkinnedMesh, skeleton |-> skeleton]
Scene(nodes, hasAnimations, animations) ==
    [loaded |-> TRUE, nodes |-> nodes, hasAnimations |-> hasAnimations,
     animations |-> animations]
LoadFailed == [loaded |-> FALSE, nodes |-> <<>>, hasAnimations |-> FALSE,
               animations |-> <<>>]
NotDelivered == [loaded |-> FALSE, nodes |-> <<>>, hasAnimations |-> FALSE,
                 animations |-> <<"not delivered">>]

\* findSkinnedMesh(object)?.skeleton: the skeleton of the first skinned mesh
\* of the traversal, NoSkeleton when there is no mesh or it has none.
findSkinnedMesh(nodes) ==
    LET I == {i \in 1..Len(nodes) : nodes[i].isSkinnedMesh}
    IN IF I = {} THEN NoSkeleton
       ELSE nodes[CHOOSE i \in I : \A j \in I : i <= j].skeleton

RestBone(name) == Bone(name, BoneQuat(0, Identity))

\* The avatar rig: no RightShoulder, so one armBones entry finds no bone.
AvatarSkeleton ==
    Skeleton(<< RestBone(<<"Hips">>),
                Bone(<<"LeftShoulder">>, BoneQuat(10, Identity)),
                Bone(<<"LeftUpperArm">>, BoneQuat(700, Quat(0, 1, 0, 0))),
                RestBone(<<"RightUpperArm">>),
                RestBone(<<"LeftForeArm">>),
                RestBone(<<"LeftHand">>),
                RestBone(<<"RightHand">>) >>)

OtherSkeleton == Skeleton(<<RestBone(<<"Root">>)>>)

AvatarInputs ==
    { LoadFailed,
      Scene(<<Node(FALSE, NoSkeleton)>>, TRUE, <<>>),
      Scene(<<Node(TRUE, NoSkeleton), Node(TRUE, AvatarSkeleton)>>, TRUE, <<>>),
      Scene(<<Node(FALSE, NoSkeleton), Node(TRUE, AvatarSkeleton),
              Node(TRUE, OtherSkeleton)>>, TRUE, <<>>) }

\* The Mixamo rig of an FBX file, and the clips the files carry.
MixamoSkeleton ==
    Skeleton(<< RestBone(mHips), RestBone(mLeftForeArm), RestBone(mLeftHand),
                RestBone(mRightHand), RestBone(<<"mixamorig", "Tail">>) >>)

ClipFull ==
    AnimationClip(<<"mixamo.com">>, -1,
        << FixedTrack(TrackName(mHips, position)),
           FixedTrack(TrackName(mHips, quaternion)),
           FixedTrack(TrackName(mLeftForeArm, quaternion)),
           FixedTrack(TrackName(mLeftHand, quaternion)),
           FixedTrack(TrackName(mRightHand, quaternion)) >>)

ClipHand ==
    AnimationClip(<<>>, 2,
        << FixedTrack(TrackName(mLeftHand, quaternion)),
           FixedTrack(TrackName(mLeftHand, scale)) >>)

ClipUnusable ==
    AnimationClip(<<"Take 001">>, -1,
        << FixedTrack(TrackName(mHips, position)),
           FixedTrack(TrackName(<<"Tail">>, quaternion)),
           FixedTrack(mHips) >>)

ClipInherited ==
    AnimationClip(<<"mixamo.com">>, -1,
        << FixedTrack(TrackName(<<"constructor">>, quaternion)),
           FixedTrack(TrackName(mHips, quaternion)) >>)

FbxWithRig == Scene(<<Node(FALSE, NoSkeleton), Node(TRUE, MixamoSkeleton)>>, TRUE, <<ClipFull>>)
FbxHand == Scene(<<Node(FALSE, NoSkeleton)>>, TRUE, <<ClipHand>>)
FbxUnusable == Scene(<<Node(FALSE, NoSkeleton)>>, TRUE, <<ClipUnusable>>)
FbxInherited == Scene(<<Node(FALSE, NoSkeleton)>>, TRUE, <<ClipInherited>>)
FbxNoAnimation == Scene(<<Node(TRUE, MixamoSkeleton)>>, TRUE, <<>>)
FbxMalformed == Scene(<<>>, FALSE, <<>>)

\* What the FBX loader may deliver for each animation URL: every name has a
\* delivery that fails and one that does not, so every subset of failures
\* meets every order of the callbacks.
AssetInputs(name) ==
    CASE name = "walking" -> {LoadFailed, FbxWithRig, FbxUnusable}
      [] name = "sitting" -> {FbxNoAnimation, FbxHand}
      [] name = "standing_up" -> {FbxMalformed, FbxInherited}
      [] name = "talking" -> {LoadFailed, FbxWithRig}
      [] name = "happy" -> {FbxUnusable, FbxHand}
      [] OTHER -> {FbxNoAnimation, FbxWithRig}

NullMap == [isNull |-> TRUE, map |-> <<>>]
NoAction == "null"

\* actionsRef.current as an object: keys in insertion order.
Keys(obj) == [i \in 1..Len(obj) |-> obj[i].key]
HasKey(obj, key) == \E i \in 1..Len(obj) : obj[i].key = key
Get(obj, key) == obj[CHOOSE i \in 1..Len(obj) : obj[i].key = key].clip
Put(obj, key, clip) ==
    IF HasKey(obj, key)
    THEN [i \in 1..Len(obj) |-> IF obj[i].key = key THEN [key |-> key, clip |-> clip]
                                 ELSE obj[i]]
    ELSE Append(obj, [key |-> key, clip |-> clip])

\* What the session has called so far: the calls in order, the clip names
\* buildBoneNameMap ran for, the first name that arrived with an animation,
\* the maps handed to retargetAnimationClip, the number of tracks each
\* retargeted clip has (-1 before), and the names whose handler caught.
NoCalls == [trace |-> <<>>, buildFor |-> <<>>, firstAnimation |-> <<>>, mapsPassed |-> {},
            retargeted |-> [n \in Names |-> -1], caught |-> {}]

SessionInit ==
    /\ avatar \in AvatarInputs
    /\ avatarPc = "loading"
    /\ targetSkeleton = NoSkeleton
    /\ originalRotations = <<>>
    /\ mixerRef = FALSE
    /\ loads = [n \in Names |-> "idle"]
    /\ assets = [n \in Names |-> NotDelivered]
    /\ loadedAnimations = 0
    /\ boneNameMap = NullMap
    /\ actionsRef = <<>>
    /\ running = {}
    /\ currentActionRef = NoAction
    /\ isLoading = TRUE
    /\ error = "null"
    /\ calls = NoCalls

\* The found-skeleton test that lets every avatar through.
SkeletonFoundAlways(found) == TRUE

\* !(!targetSkeleton)
SkeletonFound(found) == ~found.isNull

\* The avatar's onLoad callback, up to the start of the six loads.
AvatarLoaded ==
    /\ avatarPc = "loading"
    /\ avatar.loaded
    /\ LET found == findSkinnedMesh(avatar.nodes)
           corrected == applyTPoseCorrection(found)
       IN IF ~SkeletonFound(found)
          THEN /\ error' = "Failed to find skeleton in avatar model"
               /\ isLoading' = FALSE
               /\ avatarPc' = "failed"
               /\ UNCHANGED <<targetSkeleton, originalRotations, mixerRef, loads, calls>>
          ELSE /\ targetSkeleton' = corrected.skeleton
               /\ originalRotations' = corrected.originalRotations
               /\ calls' = [calls EXCEPT !.trace = Append(@, "applyTPoseCorrection")]
               /\ mixerRef' = TRUE
               /\ loads' = [n \in Names |-> "pending"]
               /\ avatarPc' = "ready"
               /\ UNCHANGED <<error, isLoading>>
    /\ UNCHANGED <<avatar, assets, loadedAnimations, boneNameMap, actionsRef, running,
                   currentActionRef, fn>>

\* The avatar's onError callback.
AvatarError ==
    /\ avatarPc = "loading"
    /\ ~avatar.loaded
    /\ error' = "Failed to load avatar model"
    /\ isLoading' = FALSE
    /\ avatarPc' = "failed"
    /\ UNCHANGED <<avatar, targetSkeleton, originalRotations, mixerRef, loads, assets,
                   loadedAnimations, boneNameMap, actionsRef, running,
                   currentActionRef, calls, fn>>

\* A restore that runs as soon as one load has finished.
AllLoadedAfterFirst(loaded) == loaded >= 1

\* loadedAnimations === totalAnimations
AllLoaded(loaded) == loaded = totalAnimations

\* checkAllLoaded(), given the registry, the counter and the call trace that
\* the calling handler leaves behind.
checkAllLoaded(actions, loaded, callsSoFar) ==
    IF AllLoaded(loaded)
    THEN /\ targetSkeleton' = restoreAPose(targetSkeleton, originalRotations)
         /\ calls' = [callsSoFar EXCEPT !.trace = Append(@, "restoreAPose")]
         /\ IF HasKey(actions, "walking")
            THEN /\ currentActionRef' = "walking"
                 /\ running' = running \cup {"walking"}
            ELSE IF Len(Keys(actions)) > 0
            THEN /\ currentActionRef' = Keys(actions)[1]
                 /\ running' = running \cup {Keys(actions)[1]}
            ELSE UNCHANGED <<currentActionRef, running>>
         /\ isLoading' = FALSE
    ELSE /\ calls' = callsSoFar
         /\ UNCHANGED <<targetSkeleton, currentActionRef, running, isLoading>>

\* A registration that also keeps clips without tracks.
ShouldRegisterAlways(retargetedClip) == TRUE

\* !(retargetedClip.tracks.length === 0)
ShouldRegister(retargetedClip) == Len(retargetedClip.tracks) # 0

\* A cache test that rebuilds the map for every clip.
NeedsBuildAlways(cached) == TRUE

\* !boneNameMap
NeedsBuild(cached) == cached.isNull

\* mixer.clipAction(clip) binds every track: PropertyBinding cannot parse a
\* track name that holds '[' or ']' (the String() form of a native function
\* does) and throws.
ClipActionThrows(clip) ==
    \E i \in 1..Len(clip.tracks) : \E k \in 1..Len(clip.tracks[i].name) :
        \E key \in DOMAIN ObjectPrototype :
            clip.tracks[i].name[k] = ObjectPrototype[key][1]

\* onAnimationLoaded(name, fbxScene)
onAnimationLoaded(name, fbxScene) ==
    LET threwEarly == ~fbxScene.hasAnimations
        hasAnimation == ~threwEarly /\ Len(fbxScene.animations) > 0
        animation == fbxScene.animations[1]
        sourceSkeleton == findSkinnedMesh(fbxScene.nodes)
        builds == NeedsBuild(boneNameMap)
        mapUsed == IF builds
                   THEN [isNull |-> FALSE,
                         map |-> buildBoneNameMap(sourceSkeleton, targetSkeleton, animation)]
                   ELSE boneNameMap
        retargetedClip == retargetAnimationClip(animation, mapUsed.map, <<name>>)
        threwLate == hasAnimation /\ ShouldRegister(retargetedClip)
                        /\ ClipActionThrows(retargetedClip)
        callsAfter ==
            IF threwEarly THEN [calls EXCEPT !.caught = @ \cup {name}]
            ELSE IF ~hasAnimation THEN calls
            ELSE [trace |-> calls.trace
                              \o (IF builds THEN <<"buildBoneNameMap">> ELSE <<>>)
                              \o <<"retargetAnimationClip">>,
                  buildFor |-> calls.buildFor \o (IF builds THEN <<name>> ELSE <<>>),
                  firstAnimation |-> IF calls.firstAnimation = <<>> THEN <<name>>
                                     ELSE calls.firstAnimation,
                  mapsPassed |-> calls.mapsPassed \cup {mapUsed.map},
                  retargeted |-> [calls.retargeted EXCEPT
                                     ![name] = Len(retargetedClip.tracks)],
                  caught |-> IF threwLate THEN calls.caught \cup {name}
                             ELSE calls.caught]
        actionsAfter ==
            IF hasAnimation /\ ShouldRegister(retargetedClip) /\ ~threwLate
            THEN Put(actionsRef, name, retargetedClip)
            ELSE actionsRef
    IN /\ boneNameMap' = IF hasAnimation THEN mapUsed ELSE boneNameMap
       /\ actionsRef' = actionsAfter
       /\ loadedAnimations' = loadedAnimations + 1
       /\ checkAllLoaded(actionsAfter, loadedAnimations + 1, callsAfter)

\* onAnimationError(name, err)
onAnimationError(name) ==
    /\ loadedAnimations' = loadedAnimations + 1
    /\ checkAllLoaded(actionsRef, loadedAnimations + 1, calls)
    /\ UNCHANGED <<boneNameMap, actionsRef>>

\* The FBX loader delivers one animation file and calls onLoad.
AnimationLoaded ==
    \E name \in Names :
        /\ loads[name] = "pending"
        /\ \E fbxScene \in {a \in AssetInputs(name) : a.loaded} :
              /\ assets' = [assets EXCEPT ![name] = fbxScene]
              /\ onAnimationLoaded(name, fbxScene)
        /\ loads' = [loads EXCEPT ![name] = "done"]
        /\ UNCHANGED <<avatar, avatarPc, originalRotations, mixerRef, error, fn>>

\* The FBX loader fails on one animation file and calls onError.
AnimationError ==
    \E name \in Names :
        /\ loads[name] = "pending"
        /\ LoadFailed \in AssetInputs(name)
        /\ assets' = [assets EXCEPT ![name] = LoadFailed]
        /\ onAnimationError(name)
        /\ loads' = [loads EXCEPT ![name] = "done"]
        /\ UNCHANGED <<avatar, avatarPc, originalRotations, mixerRef, error, fn>>

\* A click on one of the six buttons: playAnimation(animationName).
PlayAnimation ==
    \E animationName \in Names :
        /\ IF ~mixerRef
           THEN UNCHANGED <<currentActionRef, running>>
           ELSE LET stopped == IF currentActionRef # NoAction
                               THEN running \ {currentActionRef}
                               ELSE running
                IN IF HasKey(actionsRef, animationName)
                   THEN /\ currentActionRef' = animationName
                        /\ running' = stopped \cup {animationName}
                   ELSE /\ currentActionRef' = currentActionRef
                        /\ running' = stopped
        /\ UNCHANGED <<avatar, avatarPc, targetSkeleton, originalRotations, mixerRef,
                       loads, assets, loadedAnimations, boneNameMap, actionsRef,
                       isLoading, error, calls, fn>>

Init == SessionInit /\ fn = FnIdle

Next == AvatarLoaded \/ AvatarError \/ AnimationLoaded \/ AnimationError \/ PlayAnimation

Spec == Init /\ [][Next]_vars

\* The pure functions called directly; no session runs.
InitFn ==
    /\ fn = FnIdle
    /\ avatar = LoadFailed
    /\ avatarPc = "failed"
    /\ targetSkeleton = NoSkeleton
    /\ originalRotations = <<>>
    /\ mixerRef = FALSE
    /\ loads = [n \in Names |-> "idle"]
    /\ assets = [n \in Names |-> NotDelivered]
    /\ loadedAnimations = 0
    /\ boneNameMap = NullMap
    /\ actionsRef = <<>>
    /\ running = {}
    /\ currentActionRef = NoAction
    /\ isLoading = FALSE
    /\ error = "null"
    /\ calls = NoCalls

NextFn == FnStrip \/ FnRetarget \/ FnBuildRetarget \/ FnApplyTPose \/ FnRestoreAPose

SpecFn == InitFn /\ [][NextFn]_vars

(***************************************************************************)
(* Properties.                                                             *)
(***************************************************************************)
BoneOfTrack(name) == Substring(name, 0, LastIndexOf(name, "."))
PropertyOfTrack(name) == SubstringFrom(name, LastIndexOf(name, ".") + 1)
Count(seq, x) == Cardinality({i \in 1..Len(seq) : seq[i] = x})
AllDone == \A n \in Names : loads[n] = "done"
XFlip == Quat(1, 0, 0, 0)
ArmBoneNames == {<<"LeftUpperArm">>, <<"RightUpperArm">>, <<"LeftShoulder">>,
                 <<"RightShoulder">>}

\* C1 (as claimed): every track of a clip that retargetAnimationClip returns
\* for a map built by buildBoneNameMap against the target skeleton names a
\* bone of that skeleton.
C1_BoneCoverage ==
    fn.op = "buildRetarget" =>
        \A i \in 1..Len(fn.out.tracks) :
            BoneOfTrack(fn.out.tracks[i].name) \in BoneNames(fn.targetSkel)

\* C2: no track of a clip returned by retargetAnimationClip has the property
\* position or scale, whatever the clip and the map.
C2_NoPositionOrScale ==
    fn.op \in {"retarget", "buildRetarget"} =>
        \A i \in 1..Len(fn.out.tracks) :
            PropertyOfTrack(fn.out.tracks[i].name) \notin {position, scale}

\* C2 witness: a clip with a position track of a mapped bone was retargeted
\* and another of its tracks survived.
C2_Witness ==
    /\ fn.op = "retarget"
    /\ Len(fn.out.tracks) > 0
    /\ \E i \in 1..Len(fn.clip.tracks) :
          /\ fn.clip.tracks[i].name = TrackName(mHips, position)
          /\ mHips \in DOMAIN fn.nameMap

\* C3: each surviving track has the times of the input track it came from
\* and as many values; the output holds the survivors in input order and
\* the clip keeps its duration.
C3_SamplesPreserved ==
    fn.op \in {"retarget", "buildRetarget"} =>
        /\ \A i \in 1..Len(fn.clip.tracks) : \A k \in 1..Len(fn.pushed[i]) :
              /\ fn.pushed[i][k].times = fn.clip.tracks[i].times
              /\ Len(fn.pushed[i][k].values) = Len(fn.clip.tracks[i].values)
        /\ Len(fn.out.tracks) <= Len(fn.clip.tracks)
        /\ \E pick \in [1..Len(fn.out.tracks) -> 1..Len(fn.clip.tracks)] :
              /\ \A a, b \in DOMAIN pick : a < b => pick[a] < pick[b]
              /\ \A a \in DOMAIN pick : fn.pushed[pick[a]] = <<fn.out.tracks[a]>>
              /\ \A i \in 1..Len(fn.clip.tracks) :
                    fn.pushed[i] # <<>> => \E a \in DOMAIN pick : pick[a] = i
        /\ fn.out.duration = fn.clip.duration

\* C3 witness: a hand-corrected track with two keyframes at different times
\* survived, next to a renamed one.
C3_Witness ==
    /\ fn.op = "retarget"
    /\ \E i \in 1..Len(fn.out.tracks) :
          /\ fn.out.tracks[i].name = TrackName(<<"LeftHand">>, quaternion)
          /\ fn.out.tracks[i].times = <<0, 1>>
    /\ \E i \in 1..Len(fn.out.tracks) :
          fn.out.tracks[i].name = TrackName(<<"Hips">>, quaternion)

C5_RoundTrip ==
    /\ fn.op = "restoreAPose" => fn.skeleton = fn.before
    /\ fn.op \in {"applyTPose", "restoreAPose"} =>
          /\ Len(fn.skeleton.bones) = Len(fn.before.bones)
          /\ \A i \in 1..Len(fn.before.bones) :
                fn.before.bones[i].name \notin ArmBoneNames
                    => fn.skeleton.bones[i] = fn.before.bones[i]
    /\ fn.op = "restoreAPose" =>
          \A i \in 1..Len(fn.before.bones) :
              fn.before.bones[i].name \notin ArmBoneNames
                  => fn.corrected.bones[i] = fn.before.bones[i]

\* C5 witness: a skeleton with a shoulder and an upper arm but not all four
\* bones was corrected (its rotations changed) and then restored.
C5_Witness ==
    /\ fn.op = "restoreAPose"
    /\ fn.corrected # fn.before
    /\ DOMAIN fn.saved = {<<"LeftShoulder">>, <<"RightUpperArm">>}
    /\ \E i \in 1..Len(fn.before.bones) : fn.before.bones[i].name = <<"Hips">>

\* C6 (as claimed): the stripped form of a name that starts with the prefix
\* does not start with the prefix and is a fixed point of the stripping; a
\* name without the prefix is returned unchanged.
C6_Original ==
    fn.op = "strip" =>
        /\ StartsWithPrefix(fn.name) =>
              ~StartsWithPrefix(fn.out) /\ fn.again = fn.out
        /\ ~StartsWithPrefix(fn.name) => fn.out = fn.name

\* C6 (amended): stripping removes one leading "mixamorig" and one ':' right
\* after it; the result has no prefix at its start and is a fixed point
\* unless the rest of the name began with the prefix again; a name without
\* the prefix is returned unchanged.
C6_StripOnce ==
    fn.op = "strip" =>
        LET rest == IF fn.name # <<>> THEN Tail(fn.name) ELSE <<>>
            body == IF rest # <<>> /\ Head(rest) = ":" THEN Tail(rest) ELSE rest
        IN /\ StartsWithPrefix(fn.name) =>
                 /\ fn.out = body
                 /\ ~(body # <<>> /\ Head(body) = "mixamorig") =>
                        ~StartsWithPrefix(fn.out) /\ fn.again = fn.out
           /\ ~StartsWithPrefix(fn.name) => fn.out = fn.name /\ fn.again = fn.name

\* C6 witness: "mixamorig:Hips" was stripped to "Hips".
C6_Witness ==
    /\ fn.op = "strip"
    /\ fn.name = <<"mixamorig", ":", "Hips">>
    /\ fn.out = <<"Hips">>

\* C7: a name whose callback has fired is in the registry exactly when its
\* file loaded, its clip was retargeted to at least one track and nothing
\* threw; every delivered animation is retargeted whatever failed before;
\* the counter counts the callbacks, and after the sixth the loading state
\* has ended.
C7_FailureIsolation ==
    /\ \A n \in Names :
          /\ loads[n] = "done" =>
                (HasKey(actionsRef, n) <=>
                    /\ assets[n].loaded
                    /\ calls.retargeted[n] > 0
                    /\ n \notin calls.caught)
          /\ loads[n] # "done" => ~HasKey(actionsRef, n)
          /\ (loads[n] = "done" /\ assets[n].loaded /\ assets[n].hasAnimations
                /\ Len(assets[n].animations) > 0) => calls.retargeted[n] >= 0
    /\ loadedAnimations = Cardinality({n \in Names : loads[n] = "done"})
    /\ AllDone => ~isLoading

\* C7 witness: all six callbacks fired; a load error, a file without
\* animation, a throwing file and a clip without surviving track happened,
\* and two other clips are registered.
C7_Witness ==
    /\ AllDone
    /\ ~assets["walking"].loaded
    /\ assets["sitting"].loaded /\ assets["sitting"].animations = <<>>
    /\ "standing_up" \in calls.caught
    /\ calls.retargeted["happy"] = 0
    /\ Keys(actionsRef) = <<"greeting", "talking">>

\* C8: once the avatar has loaded without a skinned mesh that has a
\* skeleton, the error is shown, loading has ended and nothing else has
\* happened: no call, no load, no map, no mixer, no action, nothing playing.
C8_SkeletonNotFound ==
    (/\ avatarPc # "loading"
     /\ avatar.loaded
     /\ ~\E i \in 1..Len(avatar.nodes) :
            avatar.nodes[i].isSkinnedMesh /\ ~avatar.nodes[i].skeleton.isNull)
    => /\ error = "Failed to find skeleton in avatar model"
       /\ ~isLoading
       /\ calls = NoCalls
       /\ \A n \in Names : loads[n] = "idle"
       /\ boneNameMap = NullMap
       /\ ~mixerRef
       /\ actionsRef = <<>>
       /\ running = {}
       /\ currentActionRef = NoAction
       /\ targetSkeleton = NoSkeleton

\* C8 witness: the avatar loaded without any skinned mesh and the error
\* is shown.
C8_Witness ==
    /\ avatarPc = "failed"
    /\ avatar.loaded
    /\ \A i \in 1..Len(avatar.nodes) : ~avatar.nodes[i].isSkinnedMesh
    /\ error = "Failed to find skeleton in avatar model"

\* C9: with the skeleton found, applyTPoseCorrection is the first call and
\* the only one of its kind; restoreAPose is called at most once, only when
\* all six loads are done, exactly once by then, and no call follows it.
C9_CorrectionWindow ==
    /\ Count(calls.trace, "applyTPoseCorrection") <= 1
    /\ calls.trace # <<>> => calls.trace[1] = "applyTPoseCorrection"
    /\ avatarPc = "ready" => Count(calls.trace, "applyTPoseCorrection") = 1
    /\ Count(calls.trace, "restoreAPose") <= 1
    /\ Count(calls.trace, "restoreAPose") = 1 <=> AllDone
    /\ Count(calls.trace, "restoreAPose") = 1
          => calls.trace[Len(calls.trace)] = "restoreAPose"

\* C9 witness: all six loads are done, two of them failed, four clips were
\* retargeted and the pose was restored.
C9_Witness ==
    /\ AllDone
    /\ Count(calls.trace, "retargetAnimationClip") = 4
    /\ Cardinality({n \in Names : ~assets[n].loaded}) = 2
    /\ calls.trace[Len(calls.trace)] = "restoreAPose"

\* C10: buildBoneNameMap runs at most once, for the first name whose
\* callback ran with an animation, and every retargetAnimationClip call
\* got the map it returned, which is the cached one.
C10_MapBuiltOnce ==
    /\ Len(calls.buildFor) <= 1
    /\ Count(calls.trace, "buildBoneNameMap") = Len(calls.buildFor)
    /\ calls.buildFor = calls.firstAnimation
    /\ boneNameMap.isNull <=> calls.buildFor = <<>>
    /\ Count(calls.trace, "retargetAnimationClip") > 0 =>
          calls.mapsPassed = {boneNameMap.map}
    /\ Count(calls.trace, "retargetAnimationClip") = 0 => calls.mapsPassed = {}

\* C10 witness: the map was built for a clip without rig that is not the
\* first of the list, and four clips were retargeted with it.
C10_Witness ==
    /\ AllDone
    /\ calls.buildFor = <<"happy">>
    /\ Count(calls.trace, "retargetAnimationClip") >= 4
    /\ DOMAIN boneNameMap.map = {mLeftHand}

\* The names of the tracks the claimed rule keeps, in input order: one
\* "<target bone>.<property>" for each track from the i-th on whose name has
\* a '.', whose bone name is a key of the map and whose property is neither
\* position nor scale.
RECURSIVE KeptNames(_, _, _)
KeptNames(tracks, nameMap, i) ==
    IF i > Len(tracks) THEN <<>>
    ELSE LET name == tracks[i].name
             kept == /\ LastIndexOf(name, ".") # -1
                     /\ BoneOfTrack(name) \in DOMAIN nameMap
                     /\ PropertyOfTrack(name) \notin {position, scale}
         IN (IF kept
             THEN <<TrackName(nameMap[BoneOfTrack(name)], PropertyOfTrack(name))>>
             ELSE <<>>)
            \o KeptNames(tracks, nameMap, i + 1)

\* C11 (as claimed): retargetAnimationClip returns a clip whose tracks are,
\* in input order, exactly one track "<target bone>.<property>" for each
\* input track with a '.', a bone name that is a key of the map and a
\* property other than position and scale; every other track is dropped,
\* and a clip is returned also when no track is kept.
C11_DropAndContinue ==
    fn.op \in {"retarget", "buildRetarget"} =>
        [i \in 1..Len(fn.out.tracks) |-> fn.out.tracks[i].name]
            = KeptNames(fn.clip.tracks, fn.nameMap, 1)

\* C12 (as claimed): whatever callbacks and clicks have happened, at most
\* one action is playing, and a playing action is the one currentActionRef
\* refers to (an action is started only after the one playing before it
\* was stopped).
C12_SinglePlaying ==
    /\ Cardinality(running) <= 1
    /\ \A name \in running : name = currentActionRef

\* The outcome of the six callbacks fired in the order of AnimationNames,
\* for the assets delivered and the target skeleton: the map is built for
\* the first name of the list whose file carries an animation, and a name
\* is registered when its clip keeps a track and its action can be made.
CarriesAnimation(asset) ==
    asset.loaded /\ asset.hasAnimations /\ Len(asset.animations) > 0

ListOrderFirst ==
    AnimationNames[CHOOSE i \in 1..Len(AnimationNames) :
        /\ CarriesAnimation(assets[AnimationNames[i]])
        /\ \A j \in 1..(i - 1) : ~CarriesAnimation(assets[AnimationNames[j]])]

ListOrderMap ==
    buildBoneNameMap(findSkinnedMesh(assets[ListOrderFirst].nodes), targetSkeleton,
                     assets[ListOrderFirst].animations[1])

ListOrderClip(name) ==
    retargetAnimationClip(assets[name].animations[1], ListOrderMap, <<name>>)

ListOrderRegistered ==
    {name \in Names :
        /\ CarriesAnimation(assets[name])
        /\ ShouldRegister(ListOrderClip(name))
        /\ ~ClipActionThrows(ListOrderClip(name))}

TrackSet(clip) == {clip.tracks[i] : i \in 1..Len(clip.tracks)}

\* C13 (as claimed): once the six callbacks have fired, the set of
\* registered names and the set of tracks of each registered clip are those
\* of the callbacks fired in list order on the same assets and target
\* skeleton, that is, they are the same for every order of the callbacks.
C13_OrderIndependent ==
    AllDone =>
        /\ {actionsRef[i].key : i \in 1..Len(actionsRef)} = ListOrderRegistered
        /\ \A i \in 1..Len(actionsRef) :
              TrackSet(actionsRef[i].clip) = TrackSet(ListOrderClip(actionsRef[i].key))


====
